---- MODULE Spec2Model ----
(***************************************************************************)
(* Model of the TodoApp ARC4 contract                                      *)
(* (src/smart_contracts/todo_app/contract.py).                             *)
(*                                                                         *)
(* Contract state: the global counter todo_counter and the two box maps    *)
(* todos (id -> text) and completed (id -> flag).  Every ABI method is one *)
(* atomic application call, hence one action.  The variables last,         *)
(* returned, tasks and deleted are history variables: they record the      *)
(* calls made and what they returned, and no handler reads them.           *)
(***************************************************************************)
EXTENDS Integers, Sequences, FiniteSets, TLC

\* ---------------------------------------------------------------- bounds
\* Number of create_todo calls explored.
MaxCreates == 2

\* IDs a caller passes: 0, every ID that can have been assigned, and one
\* value above the largest counter.
IDs == 0..(MaxCreates + 1)

\* The largest value of the counter.  It is 2^64 - 1 for the AVM's uint64;
\* the model scales it down so that the creates reach it.
MaxUInt64 == 3

\* IDs and texts a caller passes in the specification that runs the counter
\* up to MaxUInt64.
OverflowIDs == 0..MaxUInt64
OverflowTexts == {"", "Buy milk"}

\* Texts a caller passes to create_todo.
Texts == {"", "Buy milk", "Walk dog", "Todo not found"}

\* ------------------------------------------------------ program constants
NotFound == "Todo not found"
MarkedCompleted == "Todo marked as completed!"
DeletedOk == "Todo deleted successfully!"

VARIABLES
    todo_counter,   \* GlobalState(UInt64)
    todos,          \* BoxMap(arc4.UInt64, arc4.String)
    completed,      \* BoxMap(arc4.UInt64, arc4.Bool)
    last,           \* history: the last call, its argument and its result
    returned,       \* history: the IDs returned by the create_todo calls
    tasks,          \* history: the texts passed to the create_todo calls
    deleted,        \* history: the IDs a delete_todo call has removed
    ndeleted,       \* history: the number of delete_todo calls that succeeded
    script_pos      \* history: how far the calls made follow Script

vars == <<todo_counter, todos, completed, last, returned, tasks, deleted,
          ndeleted, script_pos>>
store == <<todo_counter, todos, completed>>

\* ------------------------------------------------------------- box maps
EmptyBoxMap == [k \in {} |-> FALSE]

\* key in box_map
BoxContains(box, key) == key \in DOMAIN box

\* box_map[key] = val
BoxPut(box, key, val) ==
    [k \in (DOMAIN box) \cup {key} |-> IF k = key THEN val ELSE box[k]]

\* del box_map[key]
BoxDel(box, key) == [k \in (DOMAIN box) \ {key} |-> box[k]]

\* The record of one call: method, arguments, and the returned value in the
\* field of its ABI type (the other result fields keep their zero value).
Call(op, todo_id, task, ruint, rstr, rbool) ==
    [op |-> op, todo_id |-> todo_id, task |-> task,
     ruint |-> ruint, rstr |-> rstr, rbool |-> rbool, ok |-> TRUE]

\* The record of a call the AVM rejected: the program panicked, nothing is
\* returned and no write of the call is committed.
Panic(op, todo_id, task) ==
    [op |-> op, todo_id |-> todo_id, task |-> task,
     ruint |-> 0, rstr |-> "", rbool |-> FALSE, ok |-> FALSE]

Range(s) == {s[i] : i \in 1..Len(s)}

\* The call sequence of the concrete scenario: method and arguments.
Script ==
    << [op |-> "create_todo",     todo_id |-> 0, task |-> "Buy milk"],
       [op |-> "create_todo",     todo_id |-> 0, task |-> "Walk dog"],
       [op |-> "complete_todo",   todo_id |-> 1, task |-> ""],
       [op |-> "is_completed",    todo_id |-> 1, task |-> ""],
       [op |-> "is_completed",    todo_id |-> 2, task |-> ""],
       [op |-> "get_todo",        todo_id |-> 2, task |-> ""],
       [op |-> "delete_todo",     todo_id |-> 1, task |-> ""],
       [op |-> "get_todo",        todo_id |-> 1, task |-> ""],
       [op |-> "get_total_todos", todo_id |-> 0, task |-> ""] >>

\* script_pos value of a run that has left the script.
OffScript == 0 - 1

\* The history bookkeeping of one call, read from the call record the method
\* has just written: count a successful delete, and advance along Script
\* while the calls made so far are exactly its first calls.
Track ==
    /\ ndeleted' = IF last'.op = "delete_todo" /\ last'.ok
                      /\ last'.rstr = DeletedOk
                   THEN ndeleted + 1 ELSE ndeleted
    /\ script_pos' =
          IF /\ script_pos # OffScript
             /\ script_pos < Len(Script)
             /\ last'.op = Script[script_pos + 1].op
             /\ last'.todo_id = Script[script_pos + 1].todo_id
             /\ last'.task = Script[script_pos + 1].task
          THEN script_pos + 1 ELSE OffScript

\* ----------------------------------------------------------------- Init
Init ==
    /\ ndeleted = 0
    /\ script_pos = 0
    /\ todo_counter = 0
    /\ todos = EmptyBoxMap
    /\ completed = EmptyBoxMap
    /\ last = Call("__init__", 0, "", 0, "", FALSE)
    /\ returned = <<>>
    /\ tasks = <<>>
    /\ deleted = {}

\* -------------------------------------------------------------- methods
\* create_todo returning the counter value read before the increment.
create_todo_returns_old(task) ==
    /\ Len(returned) < MaxCreates
    /\ LET current_id == todo_counter
           new_id == current_id + 1
       IN  /\ todo_counter' = new_id
           /\ todos' = BoxPut(todos, new_id, task)
           /\ completed' = BoxPut(completed, new_id, FALSE)
           /\ last' = Call("create_todo", 0, task, current_id, "", FALSE)
           /\ returned' = Append(returned, current_id)
           /\ tasks' = Append(tasks, task)
           /\ UNCHANGED deleted

\* create_todo taking the new ID from the number of live records.
create_todo_reuses(task) ==
    /\ Len(returned) < MaxCreates
    /\ LET new_id == Cardinality(DOMAIN todos) + 1
       IN  /\ todo_counter' = new_id
           /\ todos' = BoxPut(todos, new_id, task)
           /\ completed' = BoxPut(completed, new_id, FALSE)
           /\ last' = Call("create_todo", 0, task, new_id, "", FALSE)
           /\ returned' = Append(returned, new_id)
           /\ tasks' = Append(tasks, task)
           /\ UNCHANGED deleted

\* create_todo storing the completion flag as true.
create_todo_flag_true(task) ==
    /\ Len(returned) < MaxCreates
    /\ LET new_id == todo_counter + 1
       IN  /\ todo_counter' = new_id
           /\ todos' = BoxPut(todos, new_id, task)
           /\ completed' = BoxPut(completed, new_id, TRUE)
           /\ last' = Call("create_todo", 0, task, new_id, "", FALSE)
           /\ returned' = Append(returned, new_id)
           /\ tasks' = Append(tasks, task)
           /\ UNCHANGED deleted

\* create_todo storing the record under the counter value read before the
\* increment.
create_todo_stores_old(task) ==
    /\ Len(returned) < MaxCreates
    /\ LET current_id == todo_counter
           new_id == current_id + 1
       IN  /\ todo_counter' = new_id
           /\ todos' = BoxPut(todos, current_id, task)
           /\ completed' = BoxPut(completed, current_id, FALSE)
           /\ last' = Call("create_todo", 0, task, current_id, "", FALSE)
           /\ returned' = Append(returned, current_id)
           /\ tasks' = Append(tasks, task)
           /\ UNCHANGED deleted

create_todo(task) ==
    /\ Len(returned) < MaxCreates
    /\ LET current_id == todo_counter
           new_id == current_id + 1
           todo_id == new_id
       IN  /\ todo_counter' = new_id
           /\ todos' = BoxPut(todos, todo_id, task)
           /\ completed' = BoxPut(completed, todo_id, FALSE)
           /\ last' = Call("create_todo", 0, task, todo_id, "", FALSE)
           /\ returned' = Append(returned, todo_id)
           /\ tasks' = Append(tasks, task)
           /\ UNCHANGED deleted

\* create_todo with the counter addition wrapping around modulo the word.
create_todo_avm_wraps(task) ==
    LET current_id == todo_counter
        new_id == (current_id + 1) % (MaxUInt64 + 1)
    IN  /\ todo_counter' = new_id
        /\ todos' = BoxPut(todos, new_id, task)
        /\ completed' = BoxPut(completed, new_id, FALSE)
        /\ last' = Call("create_todo", 0, task, new_id, "", FALSE)
        /\ returned' = Append(returned, new_id)
        /\ tasks' = Append(tasks, task)
        /\ UNCHANGED deleted

\* create_todo over the whole range of the counter: the UInt64 addition
\* current_id + UInt64(1) panics when the sum exceeds the largest uint64,
\* and the rejected call commits nothing.  Below that value it is
\* create_todo.
create_todo_avm(task) ==
    LET current_id == todo_counter
        new_id == current_id + 1
        todo_id == new_id
    IN  IF new_id > MaxUInt64
        THEN /\ last' = Panic("create_todo", 0, task)
             /\ UNCHANGED <<store, returned, tasks, deleted>>
        ELSE /\ todo_counter' = new_id
             /\ todos' = BoxPut(todos, todo_id, task)
             /\ completed' = BoxPut(completed, todo_id, FALSE)
             /\ last' = Call("create_todo", 0, task, todo_id, "", FALSE)
             /\ returned' = Append(returned, todo_id)
             /\ tasks' = Append(tasks, task)
             /\ UNCHANGED deleted

\* complete_todo flipping the flag instead of setting it.
complete_todo_toggles(todo_id) ==
    IF ~BoxContains(todos, todo_id)
    THEN /\ last' = Call("complete_todo", todo_id, "", 0, NotFound, FALSE)
         /\ UNCHANGED <<store, returned, tasks, deleted>>
    ELSE /\ completed' = BoxPut(completed, todo_id, ~completed[todo_id])
         /\ last' = Call("complete_todo", todo_id, "", 0, MarkedCompleted, FALSE)
         /\ UNCHANGED <<todo_counter, todos, returned, tasks, deleted>>

\* complete_todo without the existence check.
complete_todo_unchecked(todo_id) ==
    /\ completed' = BoxPut(completed, todo_id, TRUE)
    /\ last' = Call("complete_todo", todo_id, "", 0, MarkedCompleted, FALSE)
    /\ UNCHANGED <<todo_counter, todos, returned, tasks, deleted>>

\* complete_todo setting the flag of every record.
complete_todo_marks_all(todo_id) ==
    IF ~BoxContains(todos, todo_id)
    THEN /\ last' = Call("complete_todo", todo_id, "", 0, NotFound, FALSE)
         /\ UNCHANGED <<store, returned, tasks, deleted>>
    ELSE /\ completed' = [k \in DOMAIN completed |-> TRUE]
         /\ last' = Call("complete_todo", todo_id, "", 0, MarkedCompleted, FALSE)
         /\ UNCHANGED <<todo_counter, todos, returned, tasks, deleted>>

complete_todo(todo_id) ==
    IF ~BoxContains(todos, todo_id)
    THEN /\ last' = Call("complete_todo", todo_id, "", 0, NotFound, FALSE)
         /\ UNCHANGED <<store, returned, tasks, deleted>>
    ELSE /\ completed' = BoxPut(completed, todo_id, TRUE)
         /\ last' = Call("complete_todo", todo_id, "", 0, MarkedCompleted, FALSE)
         /\ UNCHANGED <<todo_counter, todos, returned, tasks, deleted>>

\* get_todo treating an empty stored text as a missing record.
get_todo_empty_missing(todo_id) ==
    /\ last' = Call("get_todo", todo_id, "", 0,
                    IF ~BoxContains(todos, todo_id) \/ todos[todo_id] = ""
                    THEN NotFound ELSE todos[todo_id],
                    FALSE)
    /\ UNCHANGED <<store, returned, tasks, deleted>>

\* get_todo returning the empty text for a missing record.
get_todo_missing_empty(todo_id) ==
    /\ last' = Call("get_todo", todo_id, "", 0,
                    IF ~BoxContains(todos, todo_id) THEN ""
                                                    ELSE todos[todo_id],
                    FALSE)
    /\ UNCHANGED <<store, returned, tasks, deleted>>

get_todo(todo_id) ==
    /\ last' = Call("get_todo", todo_id, "", 0,
                    IF ~BoxContains(todos, todo_id) THEN NotFound
                                                    ELSE todos[todo_id],
                    FALSE)
    /\ UNCHANGED <<store, returned, tasks, deleted>>

\* is_completed writing a default entry for a missing ID.
is_completed_inserts(todo_id) ==
    IF ~BoxContains(completed, todo_id)
    THEN /\ completed' = BoxPut(completed, todo_id, FALSE)
         /\ last' = Call("is_completed", todo_id, "", 0, "", FALSE)
         /\ UNCHANGED <<todo_counter, todos, returned, tasks, deleted>>
    ELSE /\ last' = Call("is_completed", todo_id, "", 0, "", completed[todo_id])
         /\ UNCHANGED <<store, returned, tasks, deleted>>

\* is_completed returning whether the completion entry exists.
is_completed_exists(todo_id) ==
    /\ last' = Call("is_completed", todo_id, "", 0, "",
                    BoxContains(completed, todo_id))
    /\ UNCHANGED <<store, returned, tasks, deleted>>

is_completed(todo_id) ==
    /\ last' = Call("is_completed", todo_id, "", 0, "",
                    IF ~BoxContains(completed, todo_id) THEN FALSE
                                                        ELSE completed[todo_id])
    /\ UNCHANGED <<store, returned, tasks, deleted>>

\* get_total_todos returning the number of live records.
get_total_todos_live ==
    /\ last' = Call("get_total_todos", 0, "", Cardinality(DOMAIN todos), "", FALSE)
    /\ UNCHANGED <<store, returned, tasks, deleted>>

get_total_todos ==
    /\ last' = Call("get_total_todos", 0, "", todo_counter, "", FALSE)
    /\ UNCHANGED <<store, returned, tasks, deleted>>

\* delete_todo removing the text box only.
delete_todo_keeps_flag(todo_id) ==
    IF ~BoxContains(todos, todo_id)
    THEN /\ last' = Call("delete_todo", todo_id, "", 0, NotFound, FALSE)
         /\ UNCHANGED <<store, returned, tasks, deleted>>
    ELSE /\ todos' = BoxDel(todos, todo_id)
         /\ last' = Call("delete_todo", todo_id, "", 0, DeletedOk, FALSE)
         /\ deleted' = deleted \cup {todo_id}
         /\ UNCHANGED <<todo_counter, completed, returned, tasks>>

\* delete_todo testing the ID against the counter range instead of the box.
delete_todo_range_check(todo_id) ==
    IF ~(1 <= todo_id /\ todo_id <= todo_counter)
    THEN /\ last' = Call("delete_todo", todo_id, "", 0, NotFound, FALSE)
         /\ UNCHANGED <<store, returned, tasks, deleted>>
    ELSE /\ todos' = BoxDel(todos, todo_id)
         /\ completed' = BoxDel(completed, todo_id)
         /\ last' = Call("delete_todo", todo_id, "", 0, DeletedOk, FALSE)
         /\ deleted' = deleted \cup {todo_id}
         /\ UNCHANGED <<todo_counter, returned, tasks>>

\* delete_todo decrementing the counter.
delete_todo_decrements(todo_id) ==
    IF ~BoxContains(todos, todo_id)
    THEN /\ last' = Call("delete_todo", todo_id, "", 0, NotFound, FALSE)
         /\ UNCHANGED <<store, returned, tasks, deleted>>
    ELSE /\ todo_counter' = todo_counter - 1
         /\ todos' = BoxDel(todos, todo_id)
         /\ completed' = BoxDel(completed, todo_id)
         /\ last' = Call("delete_todo", todo_id, "", 0, DeletedOk, FALSE)
         /\ deleted' = deleted \cup {todo_id}
         /\ UNCHANGED <<returned, tasks>>

\* delete_todo reporting success for a missing record too.
delete_todo_always_ok(todo_id) ==
    /\ todos' = BoxDel(todos, todo_id)
    /\ completed' = BoxDel(completed, todo_id)
    /\ last' = Call("delete_todo", todo_id, "", 0, DeletedOk, FALSE)
    /\ deleted' = deleted \cup {todo_id}
    /\ UNCHANGED <<todo_counter, returned, tasks>>

delete_todo(todo_id) ==
    IF ~BoxContains(todos, todo_id)
    THEN /\ last' = Call("delete_todo", todo_id, "", 0, NotFound, FALSE)
         /\ UNCHANGED <<store, returned, tasks, deleted>>
    ELSE /\ todos' = BoxDel(todos, todo_id)
         /\ completed' = BoxDel(completed, todo_id)
         /\ last' = Call("delete_todo", todo_id, "", 0, DeletedOk, FALSE)
         /\ deleted' = deleted \cup {todo_id}
         /\ UNCHANGED <<todo_counter, returned, tasks>>

\* ----------------------------------------------------------------- Next
Next ==
    \/ \E task \in Texts : create_todo(task) /\ Track
    \/ \E todo_id \in IDs : complete_todo(todo_id) /\ Track
    \/ \E todo_id \in IDs : get_todo(todo_id) /\ Track
    \/ \E todo_id \in IDs : is_completed(todo_id) /\ Track
    \/ get_total_todos /\ Track
    \/ \E todo_id \in IDs : delete_todo(todo_id) /\ Track

Spec == Init /\ [][Next]_vars

\* The contract run up to the largest counter value.
NextOverflow ==
    \/ \E task \in OverflowTexts : create_todo_avm(task) /\ Track
    \/ \E todo_id \in OverflowIDs : complete_todo(todo_id) /\ Track
    \/ \E todo_id \in OverflowIDs : get_todo(todo_id) /\ Track
    \/ \E todo_id \in OverflowIDs : is_completed(todo_id) /\ Track
    \/ get_total_todos /\ Track
    \/ \E todo_id \in OverflowIDs : delete_todo(todo_id) /\ Track

SpecOverflow == Init /\ [][NextOverflow]_vars

\* ------------------------------------------------------------ properties
\* The call recorded in last is a call of method op.
IsCall(op) == last.op = op

\* The ID was never returned by create_todo, or a delete_todo removed it.
Gone(id) == id \notin Range(returned) \/ id \in deleted

\* C1: in every reachable state the text map and the completion map hold
\* the same set of IDs.
C1_KeySetsEqual == DOMAIN todos = DOMAIN completed

C1_Witness ==
    /\ deleted # {}
    /\ DOMAIN todos # {}
    /\ \E id \in DOMAIN completed : completed[id]

\* C2: the k-th create_todo call returns k, whatever complete_todo,
\* delete_todo and read calls lie between the creates.
C2_CreateReturnsK ==
    /\ \A k \in 1..Len(returned) : returned[k] = k
    /\ IsCall("create_todo") => last.ruint = Len(returned)

C2_Witness ==
    /\ IsCall("create_todo")
    /\ last.ruint = 2
    /\ deleted # {}
    /\ BoxContains(todos, 2)

\* C3: the counter equals the number of create_todo calls made, no step
\* decreases it, and get_total_todos returns it.
C3_CounterCountsCreates ==
    /\ [](todo_counter = Len(returned))
    /\ [][/\ todo_counter' >= todo_counter
          /\ IsCall("get_total_todos")' => last'.ruint = Len(returned)]_vars

C3_Witness ==
    /\ IsCall("get_total_todos")
    /\ last.ruint = 2
    /\ Cardinality(DOMAIN todos) < 2

\* C4: no two create_todo calls return the same ID, also after a delete;
\* the ID a create_todo inserts is absent from both maps before the call,
\* and the call leaves every existing record's text and flag as they were.
C4_NoReuse ==
    /\ [](\A i, j \in 1..Len(returned) : i # j => returned[i] # returned[j])
    /\ [][IsCall("create_todo")' =>
            /\ ~BoxContains(todos, last'.ruint)
            /\ ~BoxContains(completed, last'.ruint)
            /\ \A id \in DOMAIN todos :
                 BoxContains(todos', id) /\ todos'[id] = todos[id]
            /\ \A id \in DOMAIN completed :
                 BoxContains(completed', id) /\ completed'[id] = completed[id]]_vars

C4_Witness ==
    /\ IsCall("create_todo")
    /\ deleted # {}
    /\ BoxContains(todos, last.ruint)
    /\ Len(returned) >= 2

\* C5: while the ID returned by the k-th create_todo has not been deleted,
\* the text map holds the k-th text under it and get_todo returns exactly
\* that text, the empty text included.
C5_TextImmutable ==
    \A k \in 1..Len(returned) :
        returned[k] \notin deleted =>
            /\ BoxContains(todos, returned[k])
            /\ todos[returned[k]] = tasks[k]
            /\ (IsCall("get_todo") /\ last.todo_id = returned[k])
                   => last.rstr = tasks[k]

C5_Witness ==
    /\ IsCall("get_todo")
    /\ last.todo_id \in Range(returned) \ deleted
    /\ last.rstr = ""
    /\ deleted # {}
    /\ \E id \in DOMAIN completed : completed[id]

\* C6: is_completed of the ID a create_todo just returned is false;
\* complete_todo of that ID returns the success message, and is_completed
\* of an ID a complete_todo just completed is true.
C6_FlagAfterCreateAndComplete ==
    [][/\ (IsCall("create_todo") /\ IsCall("is_completed")'
              /\ last'.todo_id = last.ruint) => last'.rbool = FALSE
       /\ (IsCall("create_todo") /\ IsCall("complete_todo")'
              /\ last'.todo_id = last.ruint) => last'.rstr = MarkedCompleted
       /\ (IsCall("complete_todo") /\ last.rstr = MarkedCompleted
              /\ IsCall("is_completed")' /\ last'.todo_id = last.todo_id)
              => last'.rbool = TRUE]_vars

C6_Witness ==
    /\ IsCall("is_completed")
    /\ last.rbool = TRUE
    /\ last.todo_id \in Range(returned)

\* C7: a record's flag never goes from true to false while the record
\* exists; an existing record's flag changes only in complete_todo of its
\* ID, and its completion entry disappears only in delete_todo of its ID.
C7_FlagOneWay ==
    [][\A id \in DOMAIN completed :
          /\ BoxContains(completed', id) =>
                /\ completed[id] => completed'[id]
                /\ completed'[id] # completed[id] =>
                      IsCall("complete_todo")' /\ last'.todo_id = id
          /\ ~BoxContains(completed', id) =>
                IsCall("delete_todo")' /\ last'.todo_id = id]_vars

C7_Witness ==
    /\ IsCall("complete_todo")
    /\ last.rstr = MarkedCompleted
    /\ \E id \in DOMAIN completed : id # last.todo_id /\ completed[id]

\* C8: for an ID never created (0 and IDs above the counter included) or
\* created and then deleted, get_todo, complete_todo and delete_todo
\* return "Todo not found" and is_completed returns false.
C8_MissingIsNotFound ==
    [][Gone(last'.todo_id) =>
          /\ (IsCall("get_todo")' \/ IsCall("complete_todo")'
                 \/ IsCall("delete_todo")') => last'.rstr = NotFound
          /\ IsCall("is_completed")' => last'.rbool = FALSE]_vars

C8_Witness ==
    /\ IsCall("delete_todo")
    /\ last.rstr = NotFound
    /\ last.todo_id \in deleted

\* C9: complete_todo and delete_todo of an ID absent from the text map
\* leave the counter, the text map and the completion map as they were.
C9_MissingNoMutation ==
    [][((IsCall("complete_todo")' \/ IsCall("delete_todo")')
           /\ ~BoxContains(todos, last'.todo_id)) => UNCHANGED store]_vars

C9_Witness ==
    /\ IsCall("complete_todo")
    /\ last.rstr = NotFound
    /\ last.todo_id \in deleted
    /\ DOMAIN todos # {}

\* C10: delete_todo of an existing record returns the success message,
\* removes the ID from both maps, leaves the counter and every other
\* record alone, and a get_todo of that ID right after returns
\* "Todo not found".
C10_DeleteFrame ==
    [][/\ (IsCall("delete_todo")' /\ BoxContains(todos, last'.todo_id)) =>
             /\ last'.rstr = DeletedOk
             /\ ~BoxContains(todos', last'.todo_id)
             /\ ~BoxContains(completed', last'.todo_id)
             /\ todo_counter' = todo_counter
             /\ DOMAIN todos' = DOMAIN todos \ {last'.todo_id}
             /\ DOMAIN completed' = DOMAIN completed \ {last'.todo_id}
             /\ \A id \in DOMAIN todos' : todos'[id] = todos[id]
             /\ \A id \in DOMAIN completed' : completed'[id] = completed[id]
       /\ (IsCall("delete_todo") /\ last.rstr = DeletedOk
              /\ IsCall("get_todo")' /\ last'.todo_id = last.todo_id)
              => last'.rstr = NotFound]_vars

C10_Witness ==
    /\ IsCall("delete_todo")
    /\ last.rstr = DeletedOk
    /\ DOMAIN todos # {}
    /\ \E id \in DOMAIN completed : completed[id]

\* C11 as stated: create_todo succeeds in every reachable state, the one
\* where the counter holds the largest value included, returns counter + 1
\* and increases the counter by 1.
C11_CreateNeverFails ==
    [][IsCall("create_todo")' =>
          /\ last'.ok
          /\ last'.ruint = todo_counter + 1
          /\ todo_counter' = todo_counter + 1]_vars

\* C11 (amended): for every text, create_todo succeeds while the counter is
\* below the largest value, returns counter + 1 and increases the counter by
\* 1; at the largest value the call fails and changes nothing, so the
\* counter never wraps around to 0 or to an ID already used.
C11_CreateFailsOnlyAtMax ==
    /\ [](todo_counter <= MaxUInt64 /\ 0 \notin Range(returned))
    /\ [][IsCall("create_todo")' =>
            IF todo_counter < MaxUInt64
            THEN /\ last'.ok
                 /\ last'.ruint = todo_counter + 1
                 /\ todo_counter' = todo_counter + 1
                 /\ last'.ruint \notin Range(returned)
            ELSE /\ ~last'.ok
                 /\ UNCHANGED <<store, returned, tasks, deleted>>]_vars

C11_Witness ==
    /\ IsCall("create_todo")
    /\ ~last.ok
    /\ todo_counter = MaxUInt64
    /\ deleted # {}

\* C12: get_todo, is_completed and get_total_todos leave the counter, the
\* text map and the completion map as they were, for present and absent
\* IDs alike.
C12_ReadsReadOnly ==
    [][(IsCall("get_todo")' \/ IsCall("is_completed")'
           \/ IsCall("get_total_todos")') => UNCHANGED store]_vars

C12_Witness ==
    /\ IsCall("is_completed")
    /\ ~BoxContains(completed, last.todo_id)
    /\ DOMAIN todos # {}
    /\ deleted # {}

\* The values the concrete scenario expects, call by call.
ScriptResult ==
    << [ruint |-> 1, rstr |-> "", rbool |-> FALSE],
       [ruint |-> 2, rstr |-> "", rbool |-> FALSE],
       [ruint |-> 0, rstr |-> "Todo marked as completed!", rbool |-> FALSE],
       [ruint |-> 0, rstr |-> "", rbool |-> TRUE],
       [ruint |-> 0, rstr |-> "", rbool |-> FALSE],
       [ruint |-> 0, rstr |-> "Walk dog", rbool |-> FALSE],
       [ruint |-> 0, rstr |-> "Todo deleted successfully!", rbool |-> FALSE],
       [ruint |-> 0, rstr |-> "Todo not found", rbool |-> FALSE],
       [ruint |-> 2, rstr |-> "", rbool |-> FALSE] >>

\* C13: from the initial state, each call of the scenario create("Buy
\* milk"), create("Walk dog"), complete(1), is_completed(1),
\* is_completed(2), get(2), delete(1), get(1), get_total_todos() returns
\* the value the scenario lists for it.
C13_Scenario ==
    script_pos \in 1..Len(Script) =>
        /\ last.ok
        /\ last.ruint = ScriptResult[script_pos].ruint
        /\ last.rstr = ScriptResult[script_pos].rstr
        /\ last.rbool = ScriptResult[script_pos].rbool

C13_Witness == script_pos = Len(Script) /\ IsCall("get_total_todos")

\* C14: get_todo returns "Todo not found" both for a missing ID and for a
\* record whose stored text is "Todo not found"; is_completed returns
\* false both for a missing ID and for an existing record not yet
\* completed.
C14_NotFoundAmbiguous ==
    [][/\ (IsCall("get_todo")'
              /\ (~BoxContains(todos, last'.todo_id)
                     \/ todos[last'.todo_id] = NotFound))
             => last'.rstr = NotFound
       /\ (IsCall("is_completed")'
              /\ (~BoxContains(completed, last'.todo_id)
                     \/ ~completed[last'.todo_id]))
             => last'.rbool = FALSE]_vars

C14_Witness ==
    /\ IsCall("get_todo")
    /\ BoxContains(todos, last.todo_id)
    /\ todos[last.todo_id] = NotFound
    /\ last.rstr = NotFound
    /\ \E id \in Range(returned) : ~BoxContains(todos, id)

\* C15: complete_todo of an existing record returns the success message
\* and changes nothing but the completion entry of its ID, which becomes
\* true; a second complete_todo of the same ID returns the same message
\* and leaves the state as the first call left it.
C15_CompleteFrameIdempotent ==
    [][/\ (IsCall("complete_todo")' /\ BoxContains(todos, last'.todo_id)) =>
             /\ last'.rstr = MarkedCompleted
             /\ todo_counter' = todo_counter
             /\ todos' = todos
             /\ DOMAIN completed' = DOMAIN completed
             /\ completed'[last'.todo_id] = TRUE
             /\ \A id \in DOMAIN completed \ {last'.todo_id} :
                    completed'[id] = completed[id]
       /\ (IsCall("complete_todo") /\ last.rstr = MarkedCompleted
              /\ IsCall("complete_todo")' /\ last'.todo_id = last.todo_id) =>
             /\ last'.rstr = MarkedCompleted
             /\ UNCHANGED store]_vars

C15_Witness ==
    /\ IsCall("complete_todo")
    /\ last.rstr = MarkedCompleted
    /\ script_pos = OffScript
    /\ completed[last.todo_id]
    /\ \E id \in DOMAIN completed : id # last.todo_id /\ ~completed[id]

\* C16: every ID in the text map or the completion map lies in
\* 1..counter, so the live records never outnumber the value
\* get_total_todos returns.
C16_IdsInRange ==
    /\ DOMAIN todos \subseteq 1..todo_counter
    /\ DOMAIN completed \subseteq 1..todo_counter
    /\ Cardinality(DOMAIN todos) <= todo_counter
    /\ IsCall("get_total_todos") => Cardinality(DOMAIN todos) <= last.ruint

C16_Witness ==
    /\ IsCall("get_total_todos")
    /\ Cardinality(DOMAIN todos) = last.ruint
    /\ last.ruint >= 2

\* C17: the number of records in the text map is the number of
\* create_todo calls minus the number of successful delete_todo calls;
\* the counter equals the number of live records exactly while no delete
\* has succeeded; a delete_todo of an ID already deleted returns "Todo not
\* found" and removes nothing.
C17_LiveCount ==
    /\ [](Cardinality(DOMAIN todos) = Len(returned) - ndeleted)
    /\ []((todo_counter = Cardinality(DOMAIN todos)) <=> (ndeleted = 0))
    /\ [][/\ IsCall("get_total_todos")' =>
                ((last'.ruint = Cardinality(DOMAIN todos)) <=> (ndeleted = 0))
          /\ (IsCall("delete_todo")' /\ last'.todo_id \in deleted) =>
                /\ last'.rstr = NotFound
                /\ UNCHANGED store
                /\ ndeleted' = ndeleted]_vars

C17_Witness ==
    /\ IsCall("delete_todo")
    /\ last.rstr = NotFound
    /\ last.todo_id \in deleted
    /\ ndeleted = 1
    /\ DOMAIN todos # {}

====
